---- MODULE Spec2Model ----
(***************************************************************************)
(* A model of dax/processor_parser.py (class ProcessorParser).             *)
(*                                                                         *)
(* Representation of Python values                                         *)
(*   - a string that the code takes apart (a select statement, a filter's  *)
(*     input list, a 'parent/child' reference) is a sequence of atoms; an  *)
(*     atom is a piece of text the code never splits ("foreach", "(",      *)
(*     ",", "/", " ", an input name, a number).  The string 'A' is <<"A">>.*)
(*   - an optional value (a yaml key that may be absent, a field that may  *)
(*     be None) is <<>> for None/absent and <<v>> for the value v.         *)
(*   - a value held by a parameter row is Scalar(x) for one artefact path  *)
(*     (or Python's None, the atom "None") and List(xs) for a Python list. *)
(*   - a dict whose order of iteration matters is a sequence of entries in *)
(*     insertion order; a dict that is only looked up is a function.       *)
(*   - a call's outcome is a record with a field raised: "" when the call  *)
(*     returns, otherwise the name of the exception.                       *)
(***************************************************************************)
EXTENDS Integers, Sequences, FiniteSets, TLC

VARIABLES
    yaml_source,            \* the specification document given to __init__
    inputs,                 \* self.inputs (insertion-ordered dict)
    iteration_sources,      \* self.iteration_sources, in the set's iteration order
    iteration_map,          \* self.iteration_map (insertion-ordered dict)
    match_filters,          \* self.match_filters
    prior_session_count,    \* self.prior_session_count
    is_longitudinal_,       \* self.is_longitudinal_
    csess,                  \* self.csess
    sessions_,              \* self.sessions_
    artefacts,              \* self.artefacts
    artefacts_by_input,     \* self.artefacts_by_input
    parameter_matrix,       \* self.parameter_matrix
    assessor_parameter_map, \* self.assessor_parameter_map
    raised,                 \* the exception of the last parse_session call ("" if none)
    call,                   \* the last call of a static method: its arguments and result
    history                 \* the parse_session calls made so far, with their outcomes

vars == <<yaml_source, inputs, iteration_sources, iteration_map, match_filters,
          prior_session_count, is_longitudinal_, csess, sessions_, artefacts,
          artefacts_by_input, parameter_matrix, assessor_parameter_map, raised,
          call, history>>

parser_config == <<yaml_source, inputs, iteration_sources, iteration_map,
                   match_filters, prior_session_count, is_longitudinal_>>

parser_fields == <<csess, sessions_, artefacts, artefacts_by_input,
                   parameter_matrix, assessor_parameter_map, raised>>

---------------------------------------------------------------------------
(* Python values *)

NoneV == <<>>

Some(v) == <<v>>

Scalar(x) == [list |-> FALSE, v |-> <<x>>]

List(xs) == [list |-> TRUE, v |-> xs]

PyNone == "None"

Min(a, b) == IF a <= b THEN a ELSE b

Max(a, b) == IF a >= b THEN a ELSE b

Range(s) == {s[i] : i \in 1..Len(s)}

\* s[:n] of a Python list
Take(s, n) == SubSeq(s, 1, Min(n, Len(s)))

\* the sequences without repetition over a set, of every length: a set's possible
\* orders of iteration are those of full length
Perms(S) == {p \in [1..Cardinality(S) -> S] : \A i, j \in 1..Cardinality(S) : p[i] = p[j] => i = j}

\* str.find: the first position of atom c (1-based), 0 for Python's -1
Find(s, c) ==
    IF \E i \in 1..Len(s) : s[i] = c
    THEN CHOOSE i \in 1..Len(s) : s[i] = c /\ \A j \in 1..(i - 1) : s[j] # c
    ELSE 0

\* str.split(sep)
RECURSIVE Split(_, _)
Split(s, sep) ==
    IF Find(s, sep) = 0 THEN <<s>>
    ELSE <<SubSeq(s, 1, Find(s, sep) - 1)>>
             \o Split(SubSeq(s, Find(s, sep) + 1, Len(s)), sep)

\* str.strip(): leading and trailing blanks removed
RECURSIVE Strip(_)
Strip(s) ==
    IF s = <<>> THEN s
    ELSE IF Head(s) = " " THEN Strip(Tail(s))
    ELSE IF s[Len(s)] = " " THEN Strip(SubSeq(s, 1, Len(s) - 1))
    ELSE s

\* int(str): the numbers the documents use; anything else is a ValueError
IsInt(s) == s \in {<<"0">>, <<"1">>, <<"2">>, <<"3">>}

IntOf(s) == CASE s = <<"0">> -> 0 [] s = <<"1">> -> 1 [] s = <<"2">> -> 2 [] OTHER -> 3

\* sys.maxsize, scaled to TLC's 32-bit integers
sys_maxsize == 2147483647

\* dict lookup and update on an insertion-ordered dict (a sequence of <<key, value>>)
HasKey(d, k) == \E i \in 1..Len(d) : d[i][1] = k

Lookup(d, k) == d[CHOOSE i \in 1..Len(d) : d[i][1] = k][2]

Keys(d) == [i \in 1..Len(d) |-> d[i][1]]

Put(d, k, v) ==
    IF HasKey(d, k)
    THEN [i \in 1..Len(d) |-> IF d[i][1] = k THEN <<k, v>> ELSE d[i]]
    ELSE Append(d, <<k, v>>)

---------------------------------------------------------------------------
(* The selection grammar: _get_args, _parse_select, _parse_session_select *)

_get_args(statement) ==
    LET leftindex == Find(statement, "(")
        rightindex == Find(statement, ")")
    IN  IF leftindex = 0 /\ rightindex = 0
        THEN [raised |-> "", args |-> <<statement>>]
        ELSE IF leftindex # 0 /\ rightindex # 0
        THEN LET inner == Split(SubSeq(statement, leftindex + 1, rightindex - 1), ",")
             IN  [raised |-> "",
                  args |-> <<SubSeq(statement, 1, leftindex - 1)>>
                             \o [i \in 1..Len(inner) |-> Strip(inner[i])]]
        ELSE [raised |-> "ValueError", args |-> <<>>]

_parse_select(statement) ==
    _get_args(Strip(IF statement = NoneV THEN <<"foreach">> ELSE statement[1]))

_parse_session_select(statement) ==
    LET parsed == _get_args(Strip(IF statement = NoneV THEN <<"current">> ELSE statement[1]))
        args == parsed.args
        none == [mode |-> <<>>, delta |-> 0]
    IN  IF parsed.raised # "" THEN [raised |-> parsed.raised, value |-> none]
        ELSE IF args[1] = <<"current">>
        THEN [raised |-> "", value |-> [mode |-> args[1], delta |-> 0]]
        ELSE IF args[1] \in {<<"prior">>, <<"prior-with">>}
        THEN IF Len(args) < 2 THEN [raised |-> "IndexError", value |-> none]
             ELSE IF ~IsInt(args[2]) THEN [raised |-> "ValueError", value |-> none]
             ELSE [raised |-> "", value |-> [mode |-> args[1], delta |-> IntOf(args[2])]]
        ELSE IF args[1] \in {<<"first">>, <<"first-with">>}
        THEN [raised |-> "", value |-> [mode |-> args[1], delta |-> sys_maxsize]]
        \* no branch binds delta: the return statement reads an unbound local
        ELSE [raised |-> "UnboundLocalError", value |-> none]

---------------------------------------------------------------------------
(* The input registry: parse_inputs and what __init__ derives from the document.

   A document is [scans, assessors, filters]: the 'scans' and 'assessors' lists of
   yaml_source['inputs']['xnat'] and its optional 'filters' list.  An entry is
   [name, select, select_session, types, resources, needs_qc]; select,
   select_session and needs_qc are optional, and so is a resource's 'required'. *)

_register_iteration_references(name, iteration_args, sources, map) ==
    IF iteration_args[1] = <<"foreach">>
    THEN IF Len(iteration_args) = 1
         THEN [sources |-> sources \cup {name}, map |-> map]
         ELSE [sources |-> sources, map |-> Put(map, name, iteration_args[2])]
    ELSE IF iteration_args[1] = <<"one">>
    THEN [sources |-> sources \cup {name}, map |-> map]
    ELSE IF iteration_args[1] = <<"all">>
    THEN [sources |-> sources \cup {name}, map |-> map]
    ELSE IF iteration_args[1] = <<"from">>
    THEN IF Len(iteration_args) < 2
         THEN [sources |-> sources, map |-> map, raised |-> "IndexError"]
         ELSE [sources |-> sources, map |-> Put(map, name, iteration_args[2])]
    ELSE [sources |-> sources, map |-> map]

\* r['required'] = r.get('required', True), for every resource of an entry
with_required(resources) ==
    [i \in 1..Len(resources) |->
        [resources[i] EXCEPT !.required = IF @ = NoneV THEN TRUE ELSE @[1]]]

any_required(resources) == \E i \in 1..Len(resources) : resources[i].required

\* One turn of either loop of parse_inputs.  st.r is the function's local r, which
\* the scan loop and the assessor loop share: <<>> while it is unbound.
parse_entry(kind, e, st) ==
    LET parsed_select == _parse_select(e.select)
        parsed_session_select == _parse_session_select(e.select_session)
        reg == _register_iteration_references(e.name, parsed_select.args,
                                              st.sources, st.map)
        types == LET t == Split(e.types, ",") IN [i \in 1..Len(t) |-> Strip(t[i])]
        resources == with_required(e.resources)
        r == IF Len(resources) > 0 THEN Some(resources[Len(resources)]) ELSE st.r
        \* scans: accumulated inside the loop; assessors: read once, after the loop,
        \* from whatever r was bound to last
        artefact_required ==
            IF kind = "scan" THEN any_required(resources) ELSE r[1].required
        failed(x) == [st EXCEPT !.raised = x]
    IN  IF parsed_select.raised # "" THEN failed(parsed_select.raised)
        ELSE IF parsed_session_select.raised # "" THEN failed(parsed_session_select.raised)
        ELSE IF "raised" \in DOMAIN reg THEN failed(reg.raised)
        ELSE IF kind = "assessor" /\ r = NoneV THEN failed("UnboundLocalError")
        ELSE [inputs |-> Put(st.inputs, e.name,
                             [types |-> types,
                              select |-> parsed_select.args,
                              select_session |-> parsed_session_select.value,
                              artefact_type |-> kind,
                              needs_qc |-> IF e.needs_qc = NoneV THEN FALSE ELSE e.needs_qc[1],
                              resources |-> resources,
                              required |-> artefact_required]),
              sources |-> reg.sources,
              map |-> reg.map,
              prior_session_count |->
                  Max(st.prior_session_count, parsed_session_select.value.delta),
              r |-> r,
              raised |-> ""]

RECURSIVE parse_entries(_, _, _)
parse_entries(kind, entries, st) ==
    IF entries = <<>> \/ st.raised # "" THEN st
    ELSE parse_entries(kind, Tail(entries), parse_entry(kind, Head(entries), st))

parse_inputs(yaml) ==
    parse_entries("assessor", yaml.assessors,
        parse_entries("scan", yaml.scans,
            [inputs |-> <<>>, sources |-> {}, map |-> <<>>,
             prior_session_count |-> 0, r |-> NoneV, raised |-> ""]))

is_longitudinal(yaml) ==
    \E e \in Range(yaml.scans \o yaml.assessors) :
        e.select_session # NoneV /\ e.select_session[1] # <<"current">>

RECURSIVE match_list(_)
match_list(filters) ==
    IF filters = <<>> THEN <<>>
    ELSE (IF Head(filters).type = "match"
          THEN <<Split(Head(filters).inputs, ",")>> ELSE <<>>)
         \o match_list(Tail(filters))

parse_match_filters(yaml) ==
    IF yaml.filters = NoneV THEN <<>> ELSE match_list(yaml.filters[1])

---------------------------------------------------------------------------
(* Sessions and artefacts.

   A session is [label, creation_timestamp_, scans, assessors]; a scan is
   [path, type, quality], an assessor [path, type, inputs].  An assessor's inputs
   is what its get_inputs() returns: None, or a dict from bytes to bytes (lines
   815 and 876 encode the key they look up and decode what they read).  Text
   carries its Python type, so that a str never equals the bytes of the same
   letters. *)

encode(x) == [t |-> "bytes", s |-> x]

decode(b) == b.s

str(x) == [t |-> "str", s |-> x]

\* the dict get_inputs() returns for the recorded mapping f (input name -> path)
Recorded(f) == [k \in {encode(n) : n \in DOMAIN f} |-> encode(f[decode(k)])]

\* parse_artefacts: path -> ParserArtefact; only the entity's kind and its
\* get_inputs() are read afterwards.  A scan's entity has no get_inputs().
RECURSIVE parse_artefacts(_)
parse_artefacts(csesses) ==
    IF csesses = <<>> THEN <<>>
    ELSE LET cs == Head(csesses)
             rest == parse_artefacts(Tail(csesses))
             scans == {cs.scans[i].path : i \in 1..Len(cs.scans)}
             assrs == {cs.assessors[i].path : i \in 1..Len(cs.assessors)}
             assr(p) == cs.assessors[CHOOSE i \in 1..Len(cs.assessors) :
                                        cs.assessors[i].path = p
                                        /\ \A j \in (i + 1)..Len(cs.assessors) :
                                               cs.assessors[j].path # p]
         IN  [p \in scans \cup assrs \cup DOMAIN rest |->
                 IF p \in DOMAIN rest THEN rest[p]
                 ELSE IF p \in assrs
                 THEN [kind |-> "assessor", inputs |-> assr(p).inputs]
                 ELSE [kind |-> "scan", inputs |-> NoneV]]

---------------------------------------------------------------------------
(* generate_parameter_matrix *)

input_of(inps, i) == Lookup(inps, i)

\* gate_closed, were it to give up only when no input at all has a candidate
gate_closed_all(inps, abi) ==
    /\ Len(inps) > 0
    /\ \A n \in 1..Len(inps) : Len(abi[inps[n][1]]) = 0 /\ inps[n][2].required = TRUE

\* lines 757-760: a required input without candidates
gate_closed(inps, abi) ==
    \E n \in 1..Len(inps) : Len(abi[inps[n][1]]) = 0 /\ inps[n][2].required = TRUE

\* lines 764-769: [list().append(None)] is [None]
sanitised_inputs(inps, abi) ==
    [i \in Range(Keys(inps)) |-> IF Len(abi[i]) = 0 THEN <<PyNone>> ELSE abi[i]]

\* lines 808-817: the column of a 'from' dependent, one entry per parent candidate
\* whose entity has recorded inputs
RECURSIVE from_column(_, _, _)
from_column(from_artefacts, v2, arts) ==
    IF from_artefacts = <<>> THEN [raised |-> "", col |-> <<>>]
    ELSE LET fa == Head(from_artefacts)
             rest == from_column(Tail(from_artefacts), v2, arts)
         IN  IF fa \notin DOMAIN arts THEN [raised |-> "KeyError", col |-> <<>>]
             ELSE IF arts[fa].kind = "scan" THEN [raised |-> "AttributeError", col |-> <<>>]
             ELSE IF arts[fa].inputs = NoneV THEN rest
             ELSE IF Len(v2) # 1 \/ encode(v2[1]) \notin DOMAIN arts[fa].inputs[1]
             THEN [raised |-> "KeyError", col |-> <<>>]
             ELSE IF rest.raised # "" THEN rest
             ELSE [raised |-> "",
                   col |-> <<decode(arts[fa].inputs[1][encode(v2[1])])>> \o rest.col]

\* lines 797-820: the loop over iteration_map for the source i; what it appends to
\* mapped_inputs and to combined_input_vector
RECURSIVE mapped_columns(_, _, _, _, _)
mapped_columns(i, map, inps, sanitised, arts) ==
    IF map = <<>> THEN [raised |-> "", mapped |-> <<>>, cols |-> <<>>]
    ELSE LET k == Head(map)[1]
             v == Head(map)[2]
             foreach == input_of(inps, k).select[1] = <<"foreach">>
             parts == Split(v, "/")
             v1 == IF foreach THEN v ELSE parts[1]
             v2 == IF foreach THEN <<>> ELSE parts[2]
             rest == mapped_columns(i, Tail(map), inps, sanitised, arts)
             column == IF foreach THEN [raised |-> "", col |-> sanitised[k]]
                       ELSE from_column(sanitised[i], v2, arts)
         IN  IF ~foreach /\ Len(parts) # 2
             THEN [raised |-> "ValueError", mapped |-> <<>>, cols |-> <<>>]
             ELSE IF v1 # <<i>> THEN rest
             ELSE IF column.raised # ""
             THEN [raised |-> column.raised, mapped |-> <<>>, cols |-> <<>>]
             ELSE IF rest.raised # "" THEN rest
             ELSE [raised |-> "", mapped |-> <<k>> \o rest.mapped,
                   cols |-> <<column.col>> \o rest.cols]

min_len(cols) == CHOOSE n \in {Len(cols[c]) : c \in 1..Len(cols)} :
                     \A c \in 1..Len(cols) : n <= Len(cols[c])

\* foreach_vector, were the source's own column to set the number of fragments
\* and a column that ends sooner to be filled up with None
foreach_vector_first(combined) ==
    [row \in 1..Len(combined[1]) |->
        [col \in 1..Len(combined) |->
            Scalar(IF row <= Len(combined[col]) THEN combined[col][row] ELSE PyNone)]]

\* lines 779-780 and 825-835: the fragments of a 'foreach' source, the columns
\* transposed up to the shortest
foreach_vector(combined) ==
    [row \in 1..min_len(combined) |->
        [col \in 1..Len(combined) |-> Scalar(combined[col][row])]]

\* lines 782-783: [[sanitised_inputs[i][:]]]
all_vector(candidates) == << <<List(candidates)>> >>

\* one_vector, were the slice [-1:]
one_vector_last(candidates) == << <<Scalar(candidates[Len(candidates)])>> >>

\* lines 790-791: [sanitised_inputs[i][:1]]
one_vector(candidates) ==
    << [n \in 1..Len(Take(candidates, 1)) |-> Scalar(candidates[n])] >>

\* lines 771-842: one turn of the loop over iteration_sources: the names the
\* dimension spans and its fragments
dimension(i, inps, map, arts, sanitised) ==
    LET select == input_of(inps, i).select
        select_fn == select[1]
        attached == mapped_columns(i, map, inps, sanitised, arts)
        failed(x) == [raised |-> x, mapped |-> <<>>, vector |-> <<>>]
    IN  IF select_fn = <<"foreach">>
        THEN IF attached.raised # "" THEN failed(attached.raised)
             ELSE [raised |-> "",
                   mapped |-> <<i>> \o attached.mapped,
                   vector |-> foreach_vector(<<sanitised[i]>> \o attached.cols)]
        ELSE IF select_fn = <<"all">>
        THEN [raised |-> "", mapped |-> <<i>>, vector |-> all_vector(sanitised[i])]
        \* min(len(...), select[1]) compares an int with the str _get_args returned
        ELSE IF select_fn = <<"some">>
        THEN failed(IF Len(select) < 2 THEN "IndexError" ELSE "TypeError")
        ELSE IF select_fn = <<"one">>
        THEN [raised |-> "", mapped |-> <<i>>, vector |-> one_vector(sanitised[i])]
        \* cur_input_vector stays None: len(None) for 'from', product(None) otherwise
        ELSE failed("TypeError")

\* lines 771-842: all_inputs and input_dimension_map, in the set's iteration order
RECURSIVE dimensions(_, _, _, _, _)
dimensions(sources, inps, map, arts, sanitised) ==
    IF sources = <<>> THEN [raised |-> "", all_inputs |-> <<>>, input_dimension_map |-> <<>>]
    ELSE LET d == dimension(Head(sources), inps, map, arts, sanitised)
             rest == dimensions(Tail(sources), inps, map, arts, sanitised)
         IN  IF d.raised # "" THEN [raised |-> d.raised, all_inputs |-> <<>>,
                                    input_dimension_map |-> <<>>]
             ELSE IF rest.raised # "" THEN rest
             ELSE [raised |-> "", all_inputs |-> <<d.mapped>> \o rest.all_inputs,
                   input_dimension_map |-> <<d.vector>> \o rest.input_dimension_map]

RECURSIVE chain(_)
chain(seqs) == IF seqs = <<>> THEN <<>> ELSE Head(seqs) \o chain(Tail(seqs))

\* product, were the dimensions zipped position by position
RECURSIVE product_zip(_)
product_zip(dims) ==
    IF dims = <<>> THEN << <<>> >>
    ELSE IF Tail(dims) = <<>> THEN Head(dims)
    ELSE LET rest == product_zip(Tail(dims))
             first == Head(dims)
         IN  [n \in 1..Min(Len(first), Len(rest)) |-> first[n] \o rest[n]]

\* lines 846-848: itertools.product, the first dimension varying slowest, each
\* tuple flattened
RECURSIVE product(_)
product(dims) ==
    IF dims = <<>> THEN << <<>> >>
    ELSE LET rest == product(Tail(dims))
             first == Head(dims)
         IN  chain([f \in 1..Len(first) |-> [r \in 1..Len(rest) |-> first[f] \o rest[r]]])

\* lines 853-858: a row as a dict; a header met twice keeps its last value
as_row(headers, r) ==
    [h \in Range(headers) |->
        r[CHOOSE n \in 1..Len(headers) :
              headers[n] = h /\ \A m \in (n + 1)..Len(headers) : headers[m] # h]]

generate_parameter_matrix(inps, sources, map, arts, abi) ==
    IF gate_closed(inps, abi) THEN [raised |-> "", matrix |-> <<>>]
    ELSE LET d == dimensions(sources, inps, map, arts, sanitised_inputs(inps, abi))
             matrix == product(d.input_dimension_map)
             matrix_headers == chain(d.all_inputs)
         IN  IF d.raised # "" THEN [raised |-> d.raised, matrix |-> <<>>]
             ELSE [raised |-> "",
                   matrix |-> [n \in 1..Len(matrix) |-> as_row(matrix_headers, matrix[n])]]

---------------------------------------------------------------------------
(* map_artefacts_to_inputs *)

\* utilities.extract_exp(expression).match(type): the expression is the type's
\* text, or the wildcard
regex_match(expression, type) == expression = <<type>> \/ expression = <<"*">>

\* lines 716-724: the session an input selects from; <<>> for None
select_csess(csesses, iv) ==
    IF iv.select_session.mode \in {<<"prior">>, <<"prior-with">>}
    THEN IF iv.select_session.delta >= Len(csesses) THEN NoneV
         ELSE Some(csesses[iv.select_session.delta + 1])
    ELSE IF iv.select_session.mode \in {<<"first">>, <<"first-with">>}
    THEN Some(csesses[Len(csesses)])
    ELSE Some(csesses[1])

\* lines 727-737
RECURSIVE matching_scans(_, _)
matching_scans(scans, iv) ==
    IF scans = <<>> THEN <<>>
    ELSE LET cscan == Head(scans)
             matched == \E e \in 1..Len(iv.types) : regex_match(iv.types[e], cscan.type)
             excluded == iv.select[1] = <<"all">> /\ cscan.quality = "unusable"
         IN  (IF matched /\ ~excluded THEN <<cscan.path>> ELSE <<>>)
                 \o matching_scans(Tail(scans), iv)

\* lines 739-741
RECURSIVE matching_assessors(_, _)
matching_assessors(assrs, iv) ==
    IF assrs = <<>> THEN <<>>
    ELSE (IF <<Head(assrs).type>> \in Range(iv.types) THEN <<Head(assrs).path>> ELSE <<>>)
             \o matching_assessors(Tail(assrs), iv)

map_artefacts_to_inputs(csesses, inps) ==
    [i \in Range(Keys(inps)) |->
        LET iv == input_of(inps, i)
            cs == select_csess(csesses, iv)
        IN  IF cs = NoneV THEN <<>>
            ELSE matching_scans(cs[1].scans, iv) \o matching_assessors(cs[1].assessors, iv)]

---------------------------------------------------------------------------
(* filter_matrix *)

get_input_value(input_name, parameter, arts) ==
    LET failed(x) == [raised |-> x, val |-> NoneV]
        parts == Split(input_name, "/")
        _parent_name == parts[1]
        _child_name == parts[2]
        _parent_val == parameter[_parent_name[1]]
        _parent_inputs == arts[_parent_val.v[1]].inputs
    IN  IF Find(input_name, "/") = 0
        THEN IF Len(input_name) # 1 \/ input_name[1] \notin DOMAIN parameter
             THEN failed("KeyError")
             ELSE [raised |-> "", val |-> Some(parameter[input_name[1]])]
        ELSE IF Len(parts) # 2 THEN failed("ValueError")
        ELSE IF Len(_parent_name) # 1 \/ _parent_name[1] \notin DOMAIN parameter
        THEN failed("KeyError")
        ELSE IF _parent_val.list THEN failed("TypeError")
        ELSE IF _parent_val.v[1] \notin DOMAIN arts THEN failed("KeyError")
        ELSE IF arts[_parent_val.v[1]].kind = "scan" THEN failed("AttributeError")
        ELSE IF _parent_inputs = NoneV THEN failed("TypeError")
        \* the dict's keys are bytes and _child_name is a str
        ELSE IF Len(_child_name) # 1 \/ str(_child_name[1]) \notin DOMAIN _parent_inputs[1]
        THEN failed("KeyError")
        ELSE [raised |-> "", val |-> Some(_parent_inputs[1][str(_child_name[1])])]

\* lines 913-920: the inner loop from position n of a filter: "" when every value
\* equals first_val, "differs" at the first that does not (the break), or the
\* exception of a lookup
RECURSIVE compare_inputs(_, _, _, _, _)
compare_inputs(cur_filter, n, first_val, cur_param, arts) ==
    IF n > Len(cur_filter) THEN ""
    ELSE LET cur_val == get_input_value(cur_filter[n], cur_param, arts)
         IN  IF cur_val.raised # "" THEN cur_val.raised
             ELSE IF cur_val.val # first_val THEN "differs"
             ELSE compare_inputs(cur_filter, n + 1, first_val, cur_param, arts)

\* match_row, were all_match set anew for every filter
RECURSIVE match_row_reset(_, _, _, _)
match_row_reset(filters, all_match, cur_param, arts) ==
    IF filters = <<>> THEN [raised |-> "", all_match |-> all_match]
    ELSE LET first_val == get_input_value(Head(filters)[1], cur_param, arts)
             rest == compare_inputs(Head(filters), 2, first_val.val, cur_param, arts)
         IN  IF first_val.raised # "" THEN [raised |-> first_val.raised, all_match |-> FALSE]
             ELSE IF rest \notin {"", "differs"} THEN [raised |-> rest, all_match |-> FALSE]
             ELSE match_row_reset(Tail(filters), rest = "", cur_param, arts)

\* lines 907-920: the loop over the filters for one row, all_match being the flag
\* carried from filter to filter; the row's final all_match, or the exception
RECURSIVE match_row(_, _, _, _)
match_row(filters, all_match, cur_param, arts) ==
    IF filters = <<>> THEN [raised |-> "", all_match |-> all_match]
    ELSE LET first_val == get_input_value(Head(filters)[1], cur_param, arts)
             rest == compare_inputs(Head(filters), 2, first_val.val, cur_param, arts)
         IN  IF first_val.raised # "" THEN [raised |-> first_val.raised, all_match |-> FALSE]
             ELSE IF rest \notin {"", "differs"} THEN [raised |-> rest, all_match |-> FALSE]
             ELSE match_row(Tail(filters), all_match /\ rest = "", cur_param, arts)

\* lines 922-924: the row is appended when all_match holds; an exception of the
\* row, or else of a later row, ends the call
keep_row(cur_param, cur, rest) ==
    IF cur.raised # "" THEN [raised |-> cur.raised, matrix |-> <<>>]
    ELSE IF rest.raised # "" THEN rest
    ELSE [raised |-> "",
          matrix |-> (IF cur.all_match THEN <<cur_param>> ELSE <<>>) \o rest.matrix]

RECURSIVE filter_matrix(_, _, _)
filter_matrix(matrix, filters, arts) ==
    IF matrix = <<>> THEN [raised |-> "", matrix |-> <<>>]
    ELSE keep_row(Head(matrix), match_row(filters, TRUE, Head(matrix), arts),
                  filter_matrix(Tail(matrix), filters, arts))

---------------------------------------------------------------------------
(* compare_to_existing *)

\* line 876: {key.decode(): val.decode() for key, val in inputs}, as a row's
\* values are held
decoded(recorded) ==
    [n \in {decode(k) : k \in DOMAIN recorded} |-> Scalar(decode(recorded[encode(n)]))]

\* of_type, were the type not looked at
of_any_type(assrs, proc_type) == assrs

\* line 869: the session's assessors of the processor's type, in order
RECURSIVE of_type(_, _)
of_type(assrs, proc_type) ==
    IF assrs = <<>> THEN <<>>
    ELSE (IF Head(assrs).type = proc_type THEN <<Head(assrs)>> ELSE <<>>)
             \o of_type(Tail(assrs), proc_type)

\* paired, were a recorded mapping that the row extends taken for the row
RECURSIVE paired_subset(_, _)
paired_subset(casrs, p) ==
    IF casrs = <<>> THEN <<>>
    ELSE (IF \A k \in DOMAIN decoded(Head(casrs).inputs[1]) :
                 k \in DOMAIN p /\ p[k] = decoded(Head(casrs).inputs[1])[k]
          THEN <<Head(casrs).path>> ELSE <<>>)
             \o paired_subset(Tail(casrs), p)

\* lines 877-879, for one row: the assessors appended to assessors[pi], in order
RECURSIVE paired(_, _)
paired(casrs, p) ==
    IF casrs = <<>> THEN <<>>
    ELSE (IF decoded(Head(casrs).inputs[1]) = p THEN <<Head(casrs).path>> ELSE <<>>)
             \o paired(Tail(casrs), p)

compare_to_existing(csesses, proc_type, matrix) ==
    LET casrs == of_type(csesses[1].assessors, proc_type)
    IN  IF \E n \in 1..Len(casrs) : casrs[n].inputs = NoneV THEN <<>>
        ELSE [pi \in 1..Len(matrix) |-> <<matrix[pi], paired(casrs, matrix[pi])>>]

---------------------------------------------------------------------------
(* parse_session *)

\* self.proctype, as given to __init__
proctype == "proc"

\* the fields parse_session assigns, as the call finds them
self ==
    [csess |-> csess, sessions_ |-> sessions_, artefacts |-> artefacts,
     artefacts_by_input |-> artefacts_by_input,
     parameter_matrix |-> parameter_matrix,
     assessor_parameter_map |-> assessor_parameter_map]

\* reset, were the results of the call before left standing
reset_keeping(slf, sessions) ==
    [csess |-> slf.csess, sessions_ |-> Some(sessions), artefacts |-> slf.artefacts,
     artefacts_by_input |-> slf.artefacts_by_input,
     parameter_matrix |-> slf.parameter_matrix,
     assessor_parameter_map |-> slf.assessor_parameter_map, raised |-> ""]

\* lines 147-152: the fields as the call's first statements leave them
reset(slf, sessions) ==
    [csess |-> NoneV, sessions_ |-> Some(sessions), artefacts |-> NoneV,
     artefacts_by_input |-> NoneV, parameter_matrix |-> NoneV,
     assessor_parameter_map |-> NoneV, raised |-> ""]

\* not_ordered, were equal timestamps refused as well
not_ordered_or_equal(sessions) ==
    \E i \in 1..(Len(sessions) - 1) :
        sessions[i].creation_timestamp_ <= sessions[i + 1].creation_timestamp_

\* lines 154-157: some session is older than the one after it
not_ordered(sessions) ==
    \E i \in 1..(Len(sessions) - 1) :
        sessions[i].creation_timestamp_ < sessions[i + 1].creation_timestamp_

OrderingError == "ValueError: session param is not ordered by datetime"

\* lines 159-163; list.index raises ValueError for a session not in the list
relevant_sessions(longitudinal, cs, sessions) ==
    IF ~longitudinal THEN [raised |-> "", sessions |-> <<cs>>]
    ELSE IF Find(sessions, cs) = 0 THEN [raised |-> "ValueError", sessions |-> <<>>]
    ELSE [raised |-> "", sessions |-> SubSeq(sessions, Find(sessions, cs), Len(sessions))]

---------------------------------------------------------------------------
(* The documents, candidates and artefacts the calls are made with *)

\* the most candidates an input is given
MaxCand == 3

PathName == <<"x1", "x2", "x3", "x4", "x5">>

\* the candidate lists: the artefacts of a session, each taken or left, in the
\* session's order
CandidateLists ==
    {[n \in 1..Cardinality(S) |->
         PathName[CHOOSE x \in S : Cardinality({y \in S : y < x}) = n - 1]] :
     S \in SUBSET (1..MaxCand)}

\* every candidate is an assessor; the second has no recorded inputs, the others
\* record the input c
Catalogue ==
    [p \in {PathName[n] : n \in 1..Len(PathName)} |->
        [kind |-> "assessor",
         inputs |-> IF p = "x2" THEN NoneV ELSE Some(Recorded("c" :> ("y" \o p)))]]

entry(name, select, resources) ==
    [name |-> name, select |-> select, select_session |-> NoneV, types |-> <<"T1">>,
     resources |-> resources, needs_qc |-> NoneV]

\* one resource, required by default or declared optional
ResourceChoices ==
    {<<[resource |-> "R", varname |-> "v", required |-> NoneV]>>,
     <<[resource |-> "R", varname |-> "v", required |-> Some(FALSE)]>>}

\* every directive of the grammar, the ones with a reference naming the other input
SelectChoices(other) ==
    {Some(<<"foreach">>), Some(<<"one">>), Some(<<"all">>),
     Some(<<"some", "(", "2", ")">>),
     Some(<<"foreach", "(", other, ")">>),
     Some(<<"from", "(", other, "/", "c", ")">>)}

\* a scan input A alone, or A with an assessor input B
MatrixDocs ==
    {[scans |-> <<entry("A", sa, ra)>>, assessors |-> <<>>, filters |-> NoneV] :
        sa \in SelectChoices("B"), ra \in ResourceChoices}
    \cup
    {[scans |-> <<entry("A", sa, ra)>>, assessors |-> <<entry("B", sb, rb)>>,
      filters |-> NoneV] :
        sa \in SelectChoices("B"), ra \in ResourceChoices,
        sb \in SelectChoices("A"), rb \in ResourceChoices}

---------------------------------------------------------------------------
(* The parser after __init__(yaml_source), lines 111-136 *)

InitWith(Docs) ==
    \E y \in Docs :
        LET p == parse_inputs(y)
        IN  /\ p.raised = ""
            /\ yaml_source = y
            /\ inputs = p.inputs
            /\ iteration_sources \in Perms(p.sources)
            /\ iteration_map = p.map
            /\ prior_session_count = p.prior_session_count
            /\ match_filters = parse_match_filters(y)
            /\ is_longitudinal_ = is_longitudinal(y)
            /\ csess = NoneV
            /\ sessions_ = NoneV
            /\ artefacts = NoneV
            /\ artefacts_by_input = NoneV
            /\ parameter_matrix = NoneV
            /\ assessor_parameter_map = NoneV
            /\ raised = ""
            /\ call = [fn |-> ""]
            /\ history = <<>>

---------------------------------------------------------------------------
(* The static method generate_parameter_matrix, called with the parser's own
   registries as parse_session calls it.  A static method reads and writes
   nothing of the parser, so one call per behaviour shows all it can do: the
   next-state relations of the static methods allow a call while none was made. *)

CallGenerate(abi) ==
    /\ call' = [fn |-> "generate_parameter_matrix", abi |-> abi] @@
               generate_parameter_matrix(inputs, iteration_sources, iteration_map,
                                         Catalogue, abi)
    /\ UNCHANGED <<parser_config, parser_fields, history>>

InitMatrix == InitWith(MatrixDocs)

NextMatrix ==
    /\ call.fn = ""
    /\ \E abi \in [Range(Keys(inputs)) -> CandidateLists] : CallGenerate(abi)

SpecMatrix == InitMatrix /\ [][NextMatrix]_vars

---------------------------------------------------------------------------
(* Properties of generate_parameter_matrix, under SpecMatrix *)

\* the declared entries, scans first
Entries == yaml_source.scans \o yaml_source.assessors

Generated == call.fn = "generate_parameter_matrix"

\* the document declares two inputs, both plain 'foreach'
TwoForeach ==
    /\ Len(Entries) = 2
    /\ \A n \in 1..2 : Entries[n].select = Some(<<"foreach">>)

Row2(a, b) == (Entries[1].name :> Scalar(a)) @@ (Entries[2].name :> Scalar(b))

\* the rows of a matrix that are the row r
Occurrences(matrix, r) == Cardinality({n \in 1..Len(matrix) : matrix[n] = r})

\* C1: when an input whose required flag is true has no candidate,
\* generate_parameter_matrix returns the empty matrix, whatever the candidates of
\* the other inputs.
C1_RequiredMissingGivesEmpty ==
    (/\ Generated
     /\ \E n \in 1..Len(inputs) :
            inputs[n][2].required /\ call.abi[inputs[n][1]] = <<>>)
    => call.raised = "" /\ call.matrix = <<>>

\* a required A without candidates beside a plain foreach B with two
C1_Witness ==
    /\ Generated
    /\ TwoForeach
    /\ input_of(inputs, "A").required
    /\ call.abi["A"] = <<>>
    /\ Len(call.abi["B"]) = 2
    /\ call.matrix = <<>>

\* C2 as stated: two independent foreach sources with m and n candidates give
\* exactly m*n rows, each pair of candidates in exactly one row.
C2_Original ==
    (Generated /\ TwoForeach) =>
        LET a == call.abi[Entries[1].name]
            b == call.abi[Entries[2].name]
        IN  /\ call.raised = ""
            /\ Len(call.matrix) = Len(a) * Len(b)
            /\ \A x \in 1..Len(a), y \in 1..Len(b) :
                   Occurrences(call.matrix, Row2(a[x], b[y])) = 1

\* C2, amended: with m >= 1 and n >= 1 candidates the matrix has exactly m*n rows,
\* each pair in exactly one row; a source without candidates empties the matrix
\* when it is required and otherwise stands as the single candidate None.
C2_ProductOfForeach ==
    (Generated /\ TwoForeach) =>
        LET a == call.abi[Entries[1].name]
            b == call.abi[Entries[2].name]
            a1 == IF a = <<>> THEN <<PyNone>> ELSE a
            b1 == IF b = <<>> THEN <<PyNone>> ELSE b
            empties == \/ a = <<>> /\ input_of(inputs, Entries[1].name).required
                       \/ b = <<>> /\ input_of(inputs, Entries[2].name).required
        IN  /\ call.raised = ""
            /\ empties => call.matrix = <<>>
            /\ ~empties =>
                   /\ Len(call.matrix) = Len(a1) * Len(b1)
                   /\ \A x \in 1..Len(a1), y \in 1..Len(b1) :
                          Occurrences(call.matrix, Row2(a1[x], b1[y])) = 1

\* three candidates against two: six rows
C2_Witness ==
    /\ Generated
    /\ TwoForeach
    /\ Len(call.abi["A"]) = 3
    /\ Len(call.abi["B"]) = 2
    /\ Len(call.matrix) = 6

\* C3 as stated: the source declared first varies slowest, so the row of the x-th
\* candidate of A and the y-th of B is row (x-1)*n + y, in every execution.
C3_DeclarationOrder ==
    (Generated /\ TwoForeach /\ call.raised = "") =>
        LET a == call.abi[Entries[1].name]
            b == call.abi[Entries[2].name]
        IN  (a # <<>> /\ b # <<>>) =>
                /\ Len(call.matrix) = Len(a) * Len(b)
                /\ \A x \in 1..Len(a), y \in 1..Len(b) :
                       call.matrix[(x - 1) * Len(b) + y] = Row2(a[x], b[y])

\* C4: an input with directive 'one' and at least one candidate is, in every row,
\* the scalar first candidate, and adds no row: two rows always differ in another
\* input.
C4_OneTakesFirst ==
    (Generated /\ call.raised = "") =>
        \A e \in Range(Entries) :
            (e.select = Some(<<"one">>) /\ call.abi[e.name] # <<>>) =>
                /\ \A n \in 1..Len(call.matrix) :
                       /\ e.name \in DOMAIN call.matrix[n]
                       /\ call.matrix[n][e.name] = Scalar(call.abi[e.name][1])
                /\ \A n, m \in 1..Len(call.matrix) :
                       n # m => \E k \in DOMAIN call.matrix[n] \ {e.name} :
                                    call.matrix[n][k] # call.matrix[m][k]

\* 'one' with several candidates beside a foreach with several
C4_Witness ==
    /\ Generated
    /\ Len(Entries) = 2
    /\ Entries[1].select = Some(<<"one">>)
    /\ Entries[2].select = Some(<<"foreach">>)
    /\ Len(call.abi["A"]) >= 2
    /\ Len(call.abi["B"]) >= 2
    /\ Len(call.matrix) = Len(call.abi["B"])

\* C5 as stated: an input with directive some(2) and k >= 1 candidates holds, in
\* every row and without error, the list of its first min(2, k) candidates; alone
\* in the document it gives exactly one row.
C5_SomeTakesFirstCount ==
    Generated =>
        \A e \in Range(Entries) :
            (e.select = Some(<<"some", "(", "2", ")">>) /\ call.abi[e.name] # <<>>) =>
                /\ call.raised = ""
                /\ \A n \in 1..Len(call.matrix) :
                       /\ e.name \in DOMAIN call.matrix[n]
                       /\ call.matrix[n][e.name] = List(Take(call.abi[e.name], 2))
                /\ Len(Entries) = 1 => Len(call.matrix) = 1

---------------------------------------------------------------------------
(* filter_matrix, called on the matrix generate_parameter_matrix returns, as
   parse_session calls it *)

filter(inputs_) == [type |-> "match", inputs |-> inputs_]

\* the 'filters' lists: references that agree or differ in a row, a filter that
\* fails before one that passes and after it, a blank left unstripped by
\* split(','), a parent/child reference, a filter of another type, and none
FilterChoices ==
    {NoneV,
     Some(<<filter(<<"A", ",", "B">>)>>),
     Some(<<filter(<<"B", ",", "A">>)>>),
     Some(<<filter(<<"A">>)>>),
     Some(<<filter(<<"A", ",", "B">>), filter(<<"A", ",", "A">>)>>),
     Some(<<filter(<<"A", ",", "A">>), filter(<<"A", ",", "B">>)>>),
     Some(<<filter(<<"A", ",", "B", ",", "A">>)>>),
     Some(<<filter(<<"A", ",", " ", "B">>)>>),
     Some(<<filter(<<"A", "/", "c", ",", "B">>)>>),
     Some(<<[type |-> "other", inputs |-> <<"A", ",", "B">>]>>)}

FilterDocs ==
    {[scans |-> <<entry("A", sa, ra)>>, assessors |-> <<entry("B", sb, ra)>>,
      filters |-> f] :
        sa \in {Some(<<"foreach">>), Some(<<"all">>)},
        sb \in {Some(<<"foreach">>), Some(<<"one">>)},
        ra \in ResourceChoices,
        f \in FilterChoices}

CallFilter(abi) ==
    \E generated \in {generate_parameter_matrix(inputs, iteration_sources,
                                                iteration_map, Catalogue, abi)} :
        /\ generated.raised = ""
        /\ call' = [fn |-> "filter_matrix", parameter_matrix |-> generated.matrix] @@
                   filter_matrix(generated.matrix, match_filters, Catalogue)
        /\ UNCHANGED <<parser_config, parser_fields, history>>

InitFilter == InitWith(FilterDocs)

NextFilter ==
    /\ call.fn = ""
    /\ \E abi \in [Range(Keys(inputs)) -> CandidateLists] : CallFilter(abi)

SpecFilter == InitFilter /\ [][NextFilter]_vars

---------------------------------------------------------------------------
(* compare_to_existing, called with the sessions and the rows below *)

\* the most assessors the governing session holds
MaxAssr == 3

\* the most rows of a matrix
MaxRows == 2

AssrName == <<"a1", "a2", "a3", "a4">>

\* what an assessor may be: of the processor's type or another, its get_inputs()
\* None, the mapping of A alone, or the mapping of A and B
AssessorKinds ==
    {[type |-> t, inputs |-> i] :
        t \in {proctype, "other"},
        i \in {NoneV, Some(Recorded("A" :> "p1")),
               Some(Recorded(("A" :> "p1") @@ ("B" :> "p2")))}}

AssessorLists ==
    UNION {{[n \in 1..len |->
                [path |-> AssrName[n], type |-> k[n].type, inputs |-> k[n].inputs]] :
            k \in [1..len -> AssessorKinds]} : len \in 0..MaxAssr}

RowChoices ==
    {("A" :> Scalar("p1")),
     ("A" :> Scalar("p1")) @@ ("B" :> Scalar("p2")),
     ("A" :> Scalar("p2")),
     ("A" :> List(<<"p1">>))}

MatrixChoices == UNION {[1..len -> RowChoices] : len \in 0..MaxRows}

\* the session before the governing one: its assessors are never looked at
Older ==
    [label |-> "older", creation_timestamp_ |-> 1, scans |-> <<>>,
     assessors |-> <<[path |-> "o1", type |-> proctype,
                      inputs |-> Some(Recorded("A" :> "p1"))],
                     [path |-> "o2", type |-> proctype, inputs |-> NoneV]>>]

Governing(assrs) ==
    [label |-> "governing", creation_timestamp_ |-> 2, scans |-> <<>>,
     assessors |-> assrs]

CompareDocs ==
    {[scans |-> <<entry("A", Some(<<"foreach">>), ra)>>, assessors |-> <<>>,
      filters |-> NoneV] : ra \in ResourceChoices}

CallCompare(assrs, matrix) ==
    /\ call' = [fn |-> "compare_to_existing",
                csesses |-> <<Governing(assrs), Older>>,
                parameter_matrix |-> matrix,
                result |-> compare_to_existing(<<Governing(assrs), Older>>,
                                               proctype, matrix)]
    /\ UNCHANGED <<parser_config, parser_fields, history>>

InitCompare == InitWith(CompareDocs)

NextCompare ==
    /\ call.fn = ""
    /\ \E assrs \in AssessorLists, matrix \in MatrixChoices : CallCompare(assrs, matrix)

SpecCompare == InitCompare /\ [][NextCompare]_vars

---------------------------------------------------------------------------
(* The parser's life: __init__, then parse_session called again and again *)

\* the parse_session calls a behaviour makes
MaxCalls == 3

\* three sessions of one subject; the last two were created at the same time
s1 ==
    [label |-> "s1", creation_timestamp_ |-> 2,
     scans |-> <<[path |-> "s1/scan1", type |-> "T1", quality |-> "usable"],
                 [path |-> "s1/scan2", type |-> "T1", quality |-> "unusable"]>>,
     assessors |-> <<[path |-> "s1/proc1", type |-> proctype,
                      inputs |-> Some(Recorded("A" :> "s1/scan1"))],
                     [path |-> "s1/b1", type |-> "T2",
                      inputs |-> Some(Recorded("c" :> "s1/scan1"))]>>]

s2 ==
    [label |-> "s2", creation_timestamp_ |-> 1,
     scans |-> <<[path |-> "s2/scan1", type |-> "T1", quality |-> "usable"]>>,
     assessors |-> <<[path |-> "s2/proc1", type |-> proctype, inputs |-> NoneV]>>]

s3 ==
    [label |-> "s3", creation_timestamp_ |-> 1, scans |-> <<>>, assessors |-> <<>>]

\* the lists a caller passes: in order, out of order, and with equal timestamps
SessionLists == {<<s1>>, <<s1, s2>>, <<s2, s1>>, <<s2, s3>>, <<s1, s2, s3>>}

Snapshots == {<<cs, ss>> : cs \in {s1, s2, s3}, ss \in SessionLists}

session_entry(name, select, select_session, types) ==
    [name |-> name, select |-> select, select_session |-> select_session,
     types |-> types, needs_qc |-> NoneV,
     resources |-> <<[resource |-> "R", varname |-> "v", required |-> NoneV]>>]

\* A alone, each scan or all of them; A read from the record of the assessor
\* input B; A and B with a filter on B's record; A taken from the session before
SessionDocs ==
    {[scans |-> <<session_entry("A", Some(<<"foreach">>), NoneV, <<"T1">>)>>,
      assessors |-> <<>>, filters |-> NoneV],
     [scans |-> <<session_entry("A", Some(<<"all">>), NoneV, <<"T1">>)>>,
      assessors |-> <<>>, filters |-> Some(<<filter(<<"A", ",", "A">>)>>)],
     [scans |-> <<session_entry("A", Some(<<"from", "(", "B", "/", "c", ")">>),
                                NoneV, <<"T1">>)>>,
      assessors |-> <<session_entry("B", Some(<<"foreach">>), NoneV, <<"T2">>)>>,
      filters |-> NoneV],
     [scans |-> <<session_entry("A", Some(<<"foreach">>), NoneV, <<"T1">>)>>,
      assessors |-> <<session_entry("B", Some(<<"foreach">>), NoneV, <<"T2">>)>>,
      filters |-> Some(<<filter(<<"B", "/", "c", ",", "A">>)>>)],
     [scans |-> <<session_entry("A", Some(<<"foreach">>),
                                Some(<<"prior", "(", "1", ")">>), <<"T1">>)>>,
      assessors |-> <<>>, filters |-> NoneV]}

\* the fields as parse_session leaves them, by its last statements (lines
\* 189-194) or by an exception
Leave(cs, sessions, after) ==
    /\ csess' = after.csess
    /\ sessions_' = after.sessions_
    /\ artefacts' = after.artefacts
    /\ artefacts_by_input' = after.artefacts_by_input
    /\ parameter_matrix' = after.parameter_matrix
    /\ assessor_parameter_map' = after.assessor_parameter_map
    /\ raised' = after.raised
    /\ history' = Append(history,
                         [csess |-> cs, sessions |-> sessions,
                          raised |-> after.raised,
                          parameter_matrix |-> after.parameter_matrix,
                          assessor_parameter_map |-> after.assessor_parameter_map])
    /\ UNCHANGED <<parser_config, call>>

\* parse_session(csess, sessions), lines 138-194
ParseSession(cs, sessions) ==
    /\ Len(history) < MaxCalls
    /\ \E cleared \in {reset(self, sessions)} :
        IF not_ordered(sessions)
        THEN Leave(cs, sessions, [cleared EXCEPT !.raised = OrderingError])
        ELSE
        \E relevant \in {relevant_sessions(is_longitudinal_, cs, sessions)} :
        IF relevant.raised # ""
        THEN Leave(cs, sessions, [cleared EXCEPT !.raised = relevant.raised])
        ELSE
        \E arts \in {parse_artefacts(relevant.sessions)},
           abi \in {map_artefacts_to_inputs(relevant.sessions, inputs)} :
        \E generated \in {generate_parameter_matrix(inputs, iteration_sources,
                                                    iteration_map, arts, abi)} :
        IF generated.raised # ""
        THEN Leave(cs, sessions, [cleared EXCEPT !.raised = generated.raised])
        ELSE
        \E filtered \in {filter_matrix(generated.matrix, match_filters, arts)} :
        IF filtered.raised # ""
        THEN Leave(cs, sessions, [cleared EXCEPT !.raised = filtered.raised])
        ELSE
        \E compared \in {compare_to_existing(relevant.sessions, proctype,
                                              filtered.matrix)} :
        Leave(cs, sessions,
              [csess |-> Some(cs), sessions_ |-> Some(sessions),
               artefacts |-> Some(arts), artefacts_by_input |-> Some(abi),
               parameter_matrix |-> Some(filtered.matrix),
               assessor_parameter_map |-> Some(compared), raised |-> ""])

Init == InitWith(SessionDocs)

Next == \E snap \in Snapshots : ParseSession(snap[1], snap[2])

Spec == Init /\ [][Next]_vars

---------------------------------------------------------------------------
(* Properties of compare_to_existing, under SpecCompare *)

Compared == call.fn = "compare_to_existing"

\* the assessors of the processor's type in the governing session
Targets == {a \in Range(call.csesses[1].assessors) : a.type = proctype}

\* a recorded mapping and a row have the same keys and, key by key, the same value
SameMapping(recorded, row) ==
    /\ {decode(k) : k \in DOMAIN recorded} = DOMAIN row
    /\ \A k \in DOMAIN recorded : row[decode(k)] = Scalar(decode(recorded[k]))

\* C6: when the mapping of every assessor of the processor's type is there,
\* compare_to_existing returns one entry per row, in the rows' order, and the
\* entry of a row holds an assessor exactly when the assessor is of the
\* processor's type, in the governing session, and its mapping equals the row.
C6_PairsExactMatches ==
    (Compared /\ \A a \in Targets : a.inputs # NoneV) =>
        /\ Len(call.result) = Len(call.parameter_matrix)
        /\ \A pi \in 1..Len(call.result) :
               /\ call.result[pi][1] = call.parameter_matrix[pi]
               /\ Len(call.result[pi][2]) = Cardinality(Range(call.result[pi][2]))
               /\ \A a \in Range(call.csesses[1].assessors)
                           \cup Range(call.csesses[2].assessors) :
                      a.path \in Range(call.result[pi][2]) <=>
                          /\ a \in Targets
                          /\ SameMapping(a.inputs[1], call.parameter_matrix[pi])

\* a row of A and B, paired with the assessor that recorded A and B and not with
\* the one that recorded A alone
C6_Witness ==
    /\ Compared
    /\ \A a \in Targets : a.inputs # NoneV
    /\ \E pi \in 1..Len(call.result), a, b \in Targets :
           /\ DOMAIN call.parameter_matrix[pi] = {"A", "B"}
           /\ a.inputs = Some(Recorded(("A" :> "p1") @@ ("B" :> "p2")))
           /\ b.inputs = Some(Recorded("A" :> "p1"))
           /\ a.path \in Range(call.result[pi][2])
           /\ b.path \notin Range(call.result[pi][2])

\* C7: if the mapping of an assessor of the processor's type in the governing
\* session is None the result is empty, wherever the assessor stands and however
\* many rows there are; None mappings of assessors of other types or of other
\* sessions leave one entry per row.
C7_UnretrievableAborts ==
    Compared =>
        /\ (\E a \in Targets : a.inputs = NoneV) => call.result = <<>>
        /\ (\A a \in Targets : a.inputs # NoneV) =>
               Len(call.result) = Len(call.parameter_matrix)

\* the assessor without a mapping stands last, behind one whose mapping equals
\* a row
C7_Witness ==
    /\ Compared
    /\ Len(call.parameter_matrix) = 2
    /\ Len(call.csesses[1].assessors) = 3
    /\ call.csesses[1].assessors[1].type = proctype
    /\ call.csesses[1].assessors[1].inputs = Some(Recorded("A" :> "p1"))
    /\ call.parameter_matrix[1] = ("A" :> Scalar("p1"))
    /\ call.csesses[1].assessors[3].type = proctype
    /\ call.csesses[1].assessors[3].inputs = NoneV
    /\ call.result = <<>>

---------------------------------------------------------------------------
(* Properties of filter_matrix, under SpecFilter *)

Filtered == call.fn = "filter_matrix"

\* what a reference stands for in a row: a bare input name stands for the row's
\* value of that input
Resolves(ref, row) == Len(ref) = 1 /\ ref[1] \in DOMAIN row

\* every reference of the filter stands for the same value
Agree(cur_filter, row) ==
    /\ \A n \in 1..Len(cur_filter) : Resolves(cur_filter[n], row)
    /\ \A n, m \in 1..Len(cur_filter) : row[cur_filter[n][1]] = row[cur_filter[m][1]]

---------------------------------------------------------------------------
(* Properties of parse_session, under Spec *)

Ascending(sessions) ==
    \E i \in 1..(Len(sessions) - 1) :
        sessions[i].creation_timestamp_ < sessions[i + 1].creation_timestamp_

NotStrictlyDescending(sessions) ==
    \E i \in 1..(Len(sessions) - 1) :
        sessions[i].creation_timestamp_ <= sessions[i + 1].creation_timestamp_

NothingSet(h) == h.parameter_matrix = NoneV /\ h.assessor_parameter_map = NoneV

C10_Idempotent ==
    \A n, m \in 1..Len(history) :
        (history[n].csess = history[m].csess /\ history[n].sessions = history[m].sessions)
            => history[n] = history[m]

\* the same call twice with a failed call between, a matrix with rows and an
\* assessor paired both times
C10_Witness ==
    /\ Len(history) = 3
    /\ history[1].csess = history[3].csess
    /\ history[1].sessions = history[3].sessions
    /\ history[2].raised # ""
    /\ history[3].raised = ""
    /\ \E pm \in {history[3].assessor_parameter_map} :
           /\ Len(pm[1]) >= 1
           /\ \E pi \in 1..Len(pm[1]) : pm[1][pi][2] # <<>>

---------------------------------------------------------------------------
(* parse_inputs, called with the documents below *)

\* the most resources an entry declares
MaxRes == 2

\* the resource lists: each resource required by default, by declaration, or
\* declared optional
ResourceLists ==
    UNION {{[n \in 1..len |-> [resource |-> "R", varname |-> "v", required |-> q[n]]] :
            q \in [1..len -> {NoneV, Some(TRUE), Some(FALSE)}]} : len \in 0..MaxRes}

\* the directives of the grammar, none, a token the grammar does not know, and a
\* statement without its closing bracket
ParseSelects(other) ==
    SelectChoices(other) \cup {NoneV, Some(<<"every">>), Some(<<"foreach", "(", other>>)}

\* the session policies, none, and a token the grammar does not know
ParseSessionSelects ==
    {NoneV, Some(<<"current">>), Some(<<"prior", "(", "1", ")">>), Some(<<"first">>),
     Some(<<"next">>)}

parse_entry_of(name, select, select_session, resources) ==
    [name |-> name, select |-> select, select_session |-> select_session,
     types |-> <<"T1">>, needs_qc |-> NoneV, resources |-> resources]

\* documents that vary the modes of a scan A and an assessor B, and documents that
\* vary their resources
ParseDocs ==
    {[scans |-> <<parse_entry_of("A", sa, ssa, <<[resource |-> "R", varname |-> "v", required |-> NoneV]>>)>>,
      assessors |-> bs, filters |-> NoneV] :
        sa \in ParseSelects("B"), ssa \in ParseSessionSelects,
        bs \in {<<>>} \cup
               {<<parse_entry_of("B", sb, NoneV, <<[resource |-> "R", varname |-> "v", required |-> NoneV]>>)>> :
                    sb \in ParseSelects("A")}}
    \cup
    {[scans |-> as, assessors |-> <<parse_entry_of("B", Some(<<"foreach">>), NoneV, rb)>>,
      filters |-> NoneV] :
        as \in {<<>>} \cup
               {<<parse_entry_of("A", Some(<<"foreach">>), NoneV, ra)>> :
                    ra \in ResourceLists},
        rb \in ResourceLists}
    \cup
    {[scans |-> <<parse_entry_of("A", Some(<<"foreach">>), NoneV, ra)>>,
      assessors |-> <<>>, filters |-> NoneV] : ra \in ResourceLists}

CallParseInputs(y) ==
    /\ call' = [fn |-> "parse_inputs", yaml |-> y] @@ parse_inputs(y)
    /\ UNCHANGED <<parser_config, parser_fields, history>>

InitParse == InitWith(CompareDocs)

NextParse ==
    /\ call.fn = ""
    /\ \E y \in ParseDocs : CallParseInputs(y)

SpecParse == InitParse /\ [][NextParse]_vars

---------------------------------------------------------------------------
(* Properties of parse_inputs, under SpecParse *)

Parsed == call.fn = "parse_inputs"

\* the entries of the document parse_inputs was given, scans first
Declared == call.yaml.scans \o call.yaml.assessors

\* the mode token of a statement: what stands before the bracket, the default
\* when there is no statement
Token(statement, default) ==
    IF statement = NoneV THEN default
    ELSE IF Find(statement[1], "(") = 0 THEN statement[1]
    ELSE SubSeq(statement[1], 1, Find(statement[1], "(") - 1)

SelectTokens == {<<"foreach">>, <<"one">>, <<"some">>, <<"all">>, <<"from">>}

SessionTokens ==
    {<<"current">>, <<"prior">>, <<"prior-with">>, <<"first">>, <<"first-with">>}

\* C11 as stated: after parse_inputs every input declared with a directive of the
\* grammar is in exactly one of iteration_sources and iteration_map.
C11_ExactlyOneRegistry ==
    (Parsed /\ call.raised = "") =>
        \A e \in Range(Declared) :
            Token(e.select, <<"foreach">>) \in SelectTokens =>
                (e.name \in call.sources) # HasKey(call.map, e.name)

\* C12 as stated: parse_inputs raises for a document in which an entry's select or
\* select-session token is not of the grammar; no such entry reaches the inputs.
C12_UnknownModeRejected ==
    (Parsed /\ \E e \in Range(Declared) :
                   \/ Token(e.select, <<"foreach">>) \notin SelectTokens
                   \/ Token(e.select_session, <<"current">>) \notin SessionTokens)
        => call.raised # ""

\* C13 as stated: an input's required flag is true exactly when one of its
\* resources is required, a resource without the flag counting as required.
C13_RequiredIffAnyResource ==
    (Parsed /\ call.raised = "") =>
        \A e \in Range(Declared) :
            input_of(call.inputs, e.name).required
                <=> \E n \in 1..Len(e.resources) : e.resources[n].required # Some(FALSE)

---------------------------------------------------------------------------
(* Properties of the dependents of generate_parameter_matrix, under SpecMatrix *)

\* scan A is a plain foreach source and assessor B is declared with the select
DependentOn(select) ==
    /\ Len(Entries) = 2
    /\ Entries[1].select = Some(<<"foreach">>)
    /\ Entries[2].select = Some(select)

\* the candidates as the generator takes them: None alone for an input with none
Standing(candidates) == IF candidates = <<>> THEN <<PyNone>> ELSE candidates

\* the child field c of the mapping the artefact's entity recorded
ChildOf(path) == decode(Catalogue[path].inputs[1][encode("c")])

\* C14 as stated: in every row the value of a from(parent/child) input is the
\* child field of the mapping recorded by the artefact the row gives the parent,
\* whatever the parent's candidates, some without a recorded mapping included.
C14_FromFollowsParent ==
    (Generated /\ call.raised = "" /\ DependentOn(<<"from", "(", "A", "/", "c", ")">>)) =>
        \A n \in 1..Len(call.matrix) :
            /\ DOMAIN call.matrix[n] = {"A", "B"}
            /\ Catalogue[call.matrix[n]["A"].v[1]].inputs # NoneV
            /\ call.matrix[n]["B"] = Scalar(ChildOf(call.matrix[n]["A"].v[1]))

\* C15 as stated: every row of a matrix has a value for every declared input.
C15_RowsNameEveryInput ==
    (Generated /\ call.raised = "") =>
        \A n \in 1..Len(call.matrix) :
            DOMAIN call.matrix[n] = {Entries[e].name : e \in 1..Len(Entries)}

---------------------------------------------------------------------------
(* The static method map_artefacts_to_inputs, called with the parser's inputs
   and the sessions below *)

\* the most scans a session holds
MaxScans == 2

\* the most assessors a session holds
MaxMapAssr == 1

\* XNAT names scan types and assessor types with free text: some session has a
\* scan and an assessor of one type name
TypeNames == {"T1", "T2"}

ScanLists ==
    UNION {{[n \in 1..len |-> [path |-> "m/scan" \o PathName[n], type |-> t[n],
                               quality |-> q[n]]] :
            t \in [1..len -> TypeNames], q \in [1..len -> {"usable", "unusable"}]} :
           len \in 0..MaxScans}

MapAssessorLists ==
    UNION {{[n \in 1..len |-> [path |-> "m/assr" \o PathName[n], type |-> t[n],
                               inputs |-> NoneV]] :
            t \in [1..len -> TypeNames]} : len \in 0..MaxMapAssr}

\* the session at hand, alone or followed by an older one
MapSessionLists ==
    UNION {{<<m>>, <<m, s2>>} :
           m \in {[label |-> "m", creation_timestamp_ |-> 2, scans |-> sc,
                   assessors |-> as] : sc \in ScanLists, as \in MapAssessorLists}}

\* a scan input A with one type, two types or the wildcard, and an assessor
\* input B with one type
MapDocs ==
    {[scans |-> <<session_entry("A", sa, ssa, ta)>>,
      assessors |-> <<session_entry("B", Some(<<"foreach">>), NoneV, <<tb>>)>>,
      filters |-> NoneV] :
        sa \in {Some(<<"foreach">>), Some(<<"all">>)},
        ssa \in {NoneV, Some(<<"prior", "(", "1", ")">>), Some(<<"first">>)},
        ta \in {<<"T1">>, <<"T1", ",", "T2">>, <<"*">>},
        tb \in TypeNames}

CallMap(csesses) ==
    /\ call' = [fn |-> "map_artefacts_to_inputs", csesses |-> csesses,
                artefacts_by_input |-> map_artefacts_to_inputs(csesses, inputs)]
    /\ UNCHANGED <<parser_config, parser_fields, history>>

InitMap == InitWith(MapDocs)

NextMap ==
    /\ call.fn = ""
    /\ \E csesses \in MapSessionLists : CallMap(csesses)

SpecMap == InitMap /\ [][NextMap]_vars

---------------------------------------------------------------------------
(* Properties of map_artefacts_to_inputs, under SpecMap *)

Mapped == call.fn = "map_artefacts_to_inputs"

\* the artefacts of one kind in the session the input selects from
Governed(iv, view) ==
    LET cs == select_csess(call.csesses, iv)
    IN  IF cs = NoneV THEN {}
        ELSE IF view = "scan" THEN Range(cs[1].scans) ELSE Range(cs[1].assessors)

\* C17 as stated: every candidate of a scan input is a scan of the governing
\* session that satisfies one of the input's type expressions, and every
\* candidate of an assessor input is an assessor of that session whose type is
\* literally one of the input's types; no candidate is of the other kind.
C17_CandidatesOfInputKind ==
    Mapped =>
        \A i \in DOMAIN call.artefacts_by_input :
            LET iv == input_of(inputs, i)
                candidates == call.artefacts_by_input[i]
            IN  \A n \in 1..Len(candidates) :
                    IF iv.artefact_type = "scan"
                    THEN \E cscan \in Governed(iv, "scan") :
                             /\ cscan.path = candidates[n]
                             /\ \E e \in 1..Len(iv.types) :
                                    regex_match(iv.types[e], cscan.type)
                    ELSE \E cassr \in Governed(iv, "assessor") :
                             /\ cassr.path = candidates[n]
                             /\ <<cassr.type>> \in Range(iv.types)

---------------------------------------------------------------------------
(* find_inputs *)
(* A status is text that find_inputs splits at blanks, lowers and searches: a
   sequence of characters.  The vocabulary comes from dax/task.py. *)

JOB_PENDING == <<"J", "o", "b", " ", "P", "e", "n", "d", "i", "n", "g">>

REPROC == <<"R", "e", "p", "r", "o", "c">>

RERUN == <<"R", "e", "r", "u", "n">>

FAILED_NEEDS_REPROC ==
    <<"F", "a", "i", "l", "e", "d", "-", "n", "e", "e", "d", "s", " ",
      "r", "e", "p", "r", "o", "c", "e", "s", "s", "i", "n", "g">>

NEEDS_QA == <<"N", "e", "e", "d", "s", " ", "Q", "A">>

PASSED_QA == <<"P", "a", "s", "s", "e", "d">>

BAD_QA_STATUS ==
    <<<<"F", "a", "i", "l", "e", "d">>, <<"B", "a", "d">>, <<"P", "o", "o", "r">>>>

\* a status a reviewer typed: a bad word followed by a remark
BAD_WITH_REMARK == <<"B", "a", "d", " ", "f", "o", "v">>

NEED_INPUTS == "NEED_INPUTS"

OPEN_STATUS_LIST == <<"NEED_TO_RUN", "UPLOADING", "JOB_RUNNING", "READY_TO_COMPLETE",
                      "JOB_FAILED">>

COMPLETE == "COMPLETE"

NeedInputsException == "NeedInputsException"

\* str.lower(), on the capitals the vocabulary uses
lower(s) ==
    [i \in 1..Len(s) |->
        CASE s[i] = "A" -> "a" [] s[i] = "B" -> "b" [] s[i] = "F" -> "f"
          [] s[i] = "J" -> "j" [] s[i] = "N" -> "n" [] s[i] = "P" -> "p"
          [] s[i] = "Q" -> "q" [] s[i] = "R" -> "r" [] OTHER -> s[i]]

\* sub in s, of two strings
in_str(sub, s) == \E i \in 0..(Len(s) - Len(sub)) : SubSeq(s, i + 1, i + Len(sub)) = sub

\* one turn of the loop of lines 225-253 for the item artk, artv of assr_inputs:
\* the exception it raises, or "" with the message "" when it goes on.
\* get_scan_status and get_assr_status answer from the facts of the store.
artefact_status(artk, artv, inp, store) ==
    LET raise(message) == [raised |-> NeedInputsException, message |-> <<artk, message>>]
        go_on == [raised |-> "", message |-> <<>>]
        qstatus == store.qstatus[artv.v[1]]
        pstatus == store.pstatus[artv.v[1]]
    IN  \* line 226: 'checking status:' + artv, of a str and a list
        IF artv.list THEN [raised |-> "TypeError", message |-> <<>>]
        ELSE IF inp.artefact_type = "scan" /\ ~inp.needs_qc THEN go_on
        ELSE IF inp.artefact_type = "scan"
        THEN IF store.quality[artv.v[1]] = "unusable" THEN raise("Not Usable") ELSE go_on
        ELSE IF pstatus \in Range(OPEN_STATUS_LIST) \cup {NEED_INPUTS} THEN raise("Not Ready")
        ELSE IF qstatus \in {JOB_PENDING, REPROC, RERUN} THEN raise("Not Ready")
        ELSE IF ~inp.needs_qc THEN go_on
        ELSE IF qstatus \in {FAILED_NEEDS_REPROC, NEEDS_QA} THEN raise("Needs QC")
        ELSE IF \E b \in 1..Len(BAD_QA_STATUS) :
                    in_str(lower(BAD_QA_STATUS[b]), lower(Split(qstatus, " ")[1]))
        THEN raise("Bad QC")
        ELSE go_on

\* lines 225-253
RECURSIVE check_status(_, _, _)
check_status(items, inps, store) ==
    IF items = <<>> THEN [raised |-> "", message |-> <<>>]
    ELSE LET here == artefact_status(items[1][1], items[1][2],
                                     input_of(inps, items[1][1]), store)
         IN  IF here.raised # "" THEN here ELSE check_status(Tail(items), inps, store)

\* parse_variables, lines 680-690: self.variables_to_inputs, set by __init__ and
\* never written again
RECURSIVE resource_variables(_, _, _)
resource_variables(ik, resources, found) ==
    IF resources = <<>> THEN found
    ELSE resource_variables(ik, Tail(resources),
             IF Head(resources).varname # ""
             THEN Put(found, Head(resources).varname,
                      [input |-> ik, resource |-> Head(resources).resource])
             ELSE found)

RECURSIVE parse_variables_from(_, _)
parse_variables_from(inps, found) ==
    IF inps = <<>> THEN found
    ELSE parse_variables_from(Tail(inps),
                              resource_variables(inps[1][1], inps[1][2].resources, found))

parse_variables(inps) == parse_variables_from(inps, <<>>)

resource_paths(artefact_type, artefact, resource) ==
    IF artefact_type = "assessor" THEN artefact \o "/out/resources/" \o resource
    ELSE artefact \o "/resources/" \o resource

uri_paths(artefact_type, host, artefact, res_path) ==
    IF artefact_type = "assessor" THEN host \o "/data" \o artefact \o "/out/resources/" \o res_path
    ELSE host \o "/data" \o artefact \o "/resources/" \o res_path

host == "http://xnat"

\* ','.join(uri_list)
RECURSIVE join(_)
join(uri_list) ==
    IF uri_list = <<>> THEN ""
    ELSE IF Len(uri_list) = 1 THEN uri_list[1]
    ELSE uri_list[1] \o "," \o join(Tail(uri_list))

\* lines 263-268: the first resource of the input that declares the variable
cur_res_of(inp, k) ==
    inp.resources[CHOOSE n \in 1..Len(inp.resources) :
                      /\ inp.resources[n].varname = k
                      /\ \A m \in 1..(n - 1) : inp.resources[m].varname # k]

\* lines 280-304 and 330-354: the path of the files within the resource
res_path_of(cur_res, resource, file_list) ==
    LET fmatch == IF cur_res.fmatch # NoneV THEN cur_res.fmatch
                  ELSE IF cur_res.ftype = "FILE" THEN Some(<<"*">>)
                  ELSE NoneV
        matching == SelectSeq(file_list, LAMBDA x : regex_match(fmatch[1], x))
    IN  IF cur_res.filepath # NoneV THEN resource \o "/files/" \o cur_res.filepath[1]
        ELSE IF fmatch # NoneV
        THEN join([n \in 1..Len(matching) |-> resource \o "/files/" \o matching[n]])
        ELSE resource \o "/files"

vnum_str(vnum) == CASE vnum = 0 -> "0" [] vnum = 1 -> "1" [] vnum = 2 -> "2" [] OTHER -> "3"

\* lines 271-320: the elements of a list value from the n-th on
RECURSIVE map_elements(_, _, _, _, _, _, _)
map_elements(k, v, inp, values, n, store, found) ==
    IF n > Len(values) \/ found.raised # "" THEN found
    ELSE LET cur_res == cur_res_of(inp, k)
             fpath == uri_paths(inp.artefact_type, host, values[n],
                                res_path_of(cur_res, v.resource, store.files))
         IN  map_elements(k, v, inp, values, n + 1, store,
                 IF resource_paths(inp.artefact_type, values[n], v.resource) \notin store.exists
                 THEN [found EXCEPT !.raised = NeedInputsException,
                                    !.message = <<"No Resource">>]
                 ELSE [found EXCEPT
                          !.variable_set = Put(@, k, fpath),
                          !.input_list = Append(@, [fdest |-> vnum_str(n - 1) \o cur_res.fdest,
                                                    ftype |-> cur_res.ftype,
                                                    fpath |-> fpath])])

\* lines 321-373: a single value
map_value(k, v, inp, value, store, found) ==
    LET cur_res == cur_res_of(inp, k)
        fpath == uri_paths(inp.artefact_type, host, value,
                           res_path_of(cur_res, v.resource, store.files))
    IN  IF resource_paths(inp.artefact_type, value, v.resource) \notin store.exists
        THEN [found EXCEPT !.raised = NeedInputsException, !.message = <<"No Resource">>]
        ELSE [found EXCEPT
                 \* line 372: cur_res was found by its varname, so it has one
                 !.variable_set = Put(@, k, cur_res.fdest),
                 !.input_list = Append(@, [fdest |-> cur_res.fdest,
                                           ftype |-> cur_res.ftype,
                                           fpath |-> fpath])]

\* lines 257-373
RECURSIVE map_variables(_, _, _, _, _)
map_variables(variables, inps, assr_inputs, store, found) ==
    IF variables = <<>> \/ found.raised # "" THEN found
    ELSE LET k == variables[1][1]
             v == variables[1][2]
             inp == input_of(inps, v.input)
         IN  map_variables(Tail(variables), inps, assr_inputs, store,
                 IF ~HasKey(assr_inputs, v.input)
                 THEN [found EXCEPT !.raised = "KeyError"]
                 ELSE IF Lookup(assr_inputs, v.input).list
                 THEN map_elements(k, v, inp, Lookup(assr_inputs, v.input).v, 1, store, found)
                 ELSE map_value(k, v, inp, Lookup(assr_inputs, v.input).v[1], store, found))

\* find_inputs(assr, sessions, assr_inputs), lines 213-377; store holds what the
\* sessions and assr._intf answer
find_inputs(inps, assr_inputs, store) ==
    LET status == check_status(assr_inputs, inps, store)
        nothing == [raised |-> "", message |-> <<>>, variable_set |-> <<>>,
                    input_list |-> <<>>]
    IN  IF status.raised # ""
        THEN [nothing EXCEPT !.raised = status.raised, !.message = status.message]
        ELSE map_variables(parse_variables(inps), inps, assr_inputs, store, nothing)

---------------------------------------------------------------------------
(* find_inputs, called on the parser of the documents below with a row and the
   facts of the store *)

\* the most files a resource holds
MaxFiles == 2

FileName == <<"f1", "f2", "f3">>

\* a resource as a document declares it: by default a bundle of files, or a
\* directory, or with a path, or with a pattern
FindResources(varname) ==
    {[resource |-> "R", varname |-> varname, required |-> q, ftype |-> k[1],
      fdest |-> "d" \o varname, fmatch |-> k[2], filepath |-> k[3]] :
        q \in {NoneV, Some(FALSE)},
        k \in {<<"FILE", NoneV, NoneV>>, <<"DIR", NoneV, NoneV>>,
               <<"FILE", NoneV, Some("p")>>, <<"FILE", Some(<<"f1">>), NoneV>>}}

find_entry(name, select, needs_qc, resource) ==
    [name |-> name, select |-> Some(<<select>>), select_session |-> NoneV,
     types |-> <<"T1">>, needs_qc |-> needs_qc, resources |-> <<resource>>]

\* a scan input A, taken one by one or all at once, alone or with an assessor
\* input B; each with or without the quality check
FindDocs ==
    {[scans |-> <<find_entry("A", sa, qa, ra)>>, assessors |-> bs, filters |-> NoneV] :
        sa \in {"foreach", "all"}, qa \in {NoneV, Some(TRUE)}, ra \in FindResources("va"),
        bs \in {<<>>} \cup
               {<<find_entry("B", "foreach", qb,
                             [resource |-> "R", varname |-> "vb", required |-> rb,
                              ftype |-> "FILE", fdest |-> "dvb", fmatch |-> NoneV,
                              filepath |-> NoneV])>> :
                    qb \in {NoneV, Some(TRUE)}, rb \in {NoneV, Some(FALSE)}}}

\* the row a downstream entity recorded: a value for every input, a list for an
\* input that takes all its candidates
RowOf(inps) ==
    [n \in 1..Len(inps) |->
        <<inps[n][1],
          IF inps[n][2].artefact_type = "assessor" THEN Scalar("x3")
          ELSE IF inps[n][2].select[1] = <<"all">> THEN List(<<"x1", "x2">>)
          ELSE Scalar("x1")>>]

\* what the store holds: the quality of scan x1, the two statuses of assessor x3,
\* the resources that exist and the files of a resource
Stores ==
    {[quality |-> [x \in {"x1", "x2"} |-> IF x = "x1" THEN q ELSE "usable"],
      pstatus |-> [x \in {"x3"} |-> ps],
      qstatus |-> [x \in {"x3"} |-> qs],
      exists |-> ex,
      files |-> [n \in 1..MaxFiles |-> FileName[n]]] :
        q \in {"usable", "unusable"},
        ps \in {COMPLETE, NEED_INPUTS, "JOB_RUNNING"},
        qs \in {PASSED_QA, JOB_PENDING, REPROC, RERUN, FAILED_NEEDS_REPROC, NEEDS_QA,
                BAD_QA_STATUS[1], BAD_WITH_REMARK},
        ex \in {{"x1/resources/R", "x2/resources/R", "x3/out/resources/R"},
                {"x1/resources/R", "x2/resources/R"},
                {"x3/out/resources/R"}}}

CallFindInputs(store) ==
    /\ \E assr_inputs \in {RowOf(inputs)} :
        call' = [fn |-> "find_inputs", assr_inputs |-> assr_inputs, store |-> store] @@
                find_inputs(inputs, assr_inputs, store)
    /\ UNCHANGED <<parser_config, parser_fields, history>>

InitFind == InitWith(FindDocs)

NextFind ==
    /\ call.fn = ""
    /\ \E store \in Stores : CallFindInputs(store)

SpecFind == InitFind /\ [][NextFind]_vars

---------------------------------------------------------------------------
(* Properties of find_inputs, under SpecFind *)

Found == call.fn = "find_inputs"

\* the paths a row value holds
Paths(value) == Range(value.v)

\* the artefact is not ready: an unusable scan, or an assessor that is incomplete,
\* awaits reprocessing, or fails the quality check
Unready(artefact_type, path) ==
    IF artefact_type = "scan" THEN call.store.quality[path] = "unusable"
    ELSE \/ call.store.pstatus[path] \in Range(OPEN_STATUS_LIST) \cup {NEED_INPUTS}
         \/ call.store.qstatus[path] \in {JOB_PENDING, REPROC, RERUN}
         \/ call.store.qstatus[path] \in {FAILED_NEEDS_REPROC, NEEDS_QA, BAD_QA_STATUS[1],
                                          BAD_WITH_REMARK}

RequiredUnready ==
    \E n \in 1..Len(call.assr_inputs) :
        /\ input_of(inputs, call.assr_inputs[n][1]).required
        /\ \E path \in Paths(call.assr_inputs[n][2]) :
               Unready(input_of(inputs, call.assr_inputs[n][1]).artefact_type, path)

\* every resource the row needs exists
NothingMissing ==
    call.store.exists = {"x1/resources/R", "x2/resources/R", "x3/out/resources/R"}

\* C18 as stated: find_inputs raises NeedInputsException, returning nothing, when
\* the row holds an unusable scan of a required input or an assessor of a required
\* input that is incomplete, awaits reprocessing or fails the quality check;
\* otherwise, no resource missing, it returns the variables and the download list.
C18_NotReadyIffRequiredUnready ==
    Found =>
        /\ RequiredUnready =>
               /\ call.raised = NeedInputsException
               /\ call.variable_set = <<>>
               /\ call.input_list = <<>>
        /\ (~RequiredUnready /\ NothingMissing) =>
               /\ call.raised = ""
               /\ Len(call.input_list) >= 1

====
